---------------------------- MODULE Spec2Model ----------------------------
(***************************************************************************)
(* A model of generate_talks.py: TalkProcessor (parse_metadata,            *)
(* is_talk_processed, process_talk, generate_landing_page, copy_assets,    *)
(* process_all, print_summary) and main.                                   *)
(*                                                                         *)
(* A talk unit is the i-th entry of the input root in sorted order of the  *)
(* directory names; the number i stands for the directory name, which is   *)
(* also the unit's handle (talk_dir.name).                                 *)
(***************************************************************************)
EXTENDS Integers, Sequences, FiniteSets, TLC

VARIABLES
    root,             \* the input root: "missing", "file" or "dir"
    talks,            \* the entries of the input root (talks_dir.iterdir())
    out,              \* the output subdirectory of each entry (output_dir / handle)
    landing,          \* output_dir / 'index.html': a page, or NoPage
    assets,           \* whether copy_assets has put the stylesheet in output_dir
    clock,            \* the last day datetime.now() returned
    run,              \* the number of the current invocation of main
    force,            \* self.force
    pcMain,           \* where main / process_all is
    pc,               \* where each unit's process_talk is
    queue,            \* the executor's work queue (submitted, not yet started)
    metadata,         \* process_talk's local `metadata` of each unit
    pending,          \* the error message a unit is about to append
    lock,             \* self.lock: Free, a unit (its worker), or MainThread
    processed_talks,  \* self.processed_talks
    skipped_talks,    \* self.skipped_talks
    errors,           \* self.errors
    summary,          \* what print_summary printed in this run, or NoSummary
    invoked,          \* the units whose conversion was invoked in this run
    prev              \* what the run found: the landing page and the output
                      \* subdirectories as they were, and the previous run's force

vars == <<root, talks, out, landing, assets, clock, run, force, pcMain, pc,
          queue, metadata, pending, lock, processed_talks, skipped_talks,
          errors, summary, invoked, prev>>

-----------------------------------------------------------------------------
(* Bounds of the model *)

\* the number of entries of the input root
NumUnits == 2

\* the number of invocations of main in a row
MaxRuns == 2

\* the days datetime.now() ranges over are 0..MaxDay
MaxDay == 1

\* the largest batch the listing specification renders
MaxBatch == 3

-----------------------------------------------------------------------------
(* Program constants *)

\* ThreadPoolExecutor(max_workers=8)
max_workers == 8

\* padding = 3 if num_slides >= 100 else 2
PaddingThreshold == 100

required_fields == <<"title", "pdf", "description", "highlight", "date">>

-----------------------------------------------------------------------------
(* Values *)

Free == 0
MainThread == -1

NoPage == [kind |-> "nopage"]
NoSummary == [kind |-> "nosummary"]
None == [kind |-> "none"]

Date(y, m, d) == [year |-> y, month |-> m, day |-> d]

\* a `date` value that is not a date (date: "soon" loads as a str)
NotADate == [str |-> "soon"]

IsDate(v) == DOMAIN v = {"year", "month", "day"}

\* datetime.date's comparison
DateLT(a, b) ==
    \/ a.year < b.year
    \/ a.year = b.year /\ a.month < b.month
    \/ a.year = b.year /\ a.month = b.month /\ a.day < b.day

DateLE(a, b) == a = b \/ DateLT(a, b)


-----------------------------------------------------------------------------
(* The input: descriptor files and the entries of the input root *)

\* what a descriptor of unit u holds when it is complete, with `date` d
TalkOf(u, d) ==
    [title |-> <<"Talk", u>>, pdf |-> "slides.pdf", description |-> "text",
     highlight |-> 3, date |-> d]

\* the same with the `date` field left out
TalkWithoutDate(u) ==
    [title |-> <<"Talk", u>>, pdf |-> "slides.pdf", description |-> "text",
     highlight |-> 3]

\* metadata.yml: absent, not YAML, or a YAML mapping
NoFile == [kind |-> "absent"]
BadYaml == [kind |-> "syntax"]
Yaml(data) == [kind |-> "yaml", data |-> data]

\* an entry of the input root
Entry(isDir, hidden, meta, files, pages) ==
    [isDir |-> isDir, hidden |-> hidden, meta |-> meta, files |-> files,
     pages |-> pages]

\* the dates the units of a run carry
D1 == Date(2023, 12, 31)
D2 == Date(2024, 6, 1)

\* the descriptors that do not load, and those that do
BrokenDescriptors(u) ==
    {NoFile, BadYaml, Yaml([title |-> <<"Talk", u>>]), Yaml([talk |-> TalkWithoutDate(u)])}

LoadableDescriptors(u) == {Yaml([talk |-> TalkOf(u, d)]) : d \in {D1, D2, NotADate}}

\* what the u-th entry of the input root may be: a plain file, a hidden
\* directory, or a talk directory with its descriptor and its source asset
Entries(u) ==
    {Entry(FALSE, FALSE, NoFile, {}, 0), Entry(TRUE, TRUE, NoFile, {}, 0)}
    \cup {Entry(TRUE, FALSE, m, {"slides.pdf"}, 57) : m \in BrokenDescriptors(u)}
    \cup {Entry(TRUE, FALSE, m, f, 57) :
              m \in LoadableDescriptors(u), f \in {{}, {"slides.pdf"}}}

Units == DOMAIN talks

\* the output subdirectory of a unit
NoOutput == [kind |-> "absent", index |-> FALSE, pdf |-> FALSE, slides |-> 0]

\* the output subdirectory an earlier publication of the unit left
Published(pages) == [kind |-> "dir", index |-> TRUE, pdf |-> TRUE, slides |-> pages]

Snapshot(l, o, f) == [landing |-> l, out |-> o, force |-> f]

-----------------------------------------------------------------------------
(* parse_metadata: the value returned, or the exception caught *)

Ok(talk) == [ok |-> TRUE, talk |-> talk]
Err(msg) == [ok |-> FALSE, error |-> msg]

RECURSIVE FirstMissing(_, _)
FirstMissing(talk, i) ==
    IF i > Len(required_fields) THEN 0
    ELSE IF required_fields[i] \notin DOMAIN talk THEN i
    ELSE FirstMissing(talk, i + 1)

\* a mutant of parse_metadata: the required fields are not checked
parse_metadata_unchecked(file) ==
    IF file.kind = "syntax" THEN Err("yaml error")
    ELSE IF "talk" \notin DOMAIN file.data THEN Err("Missing 'talk' section in metadata")
    ELSE Ok(file.data.talk)

parse_metadata(file) ==
    IF file.kind = "syntax" THEN Err("yaml error")
    ELSE IF "talk" \notin DOMAIN file.data THEN Err("Missing 'talk' section in metadata")
    ELSE LET talk == file.data.talk
             i == FirstMissing(talk, 1)
         IN  IF i # 0 THEN Err(<<"Missing required field", required_fields[i]>>)
             ELSE Ok(talk)

\* index_file.exists() and talk_output_dir.is_dir()
is_talk_processed(o) == o.index /\ o.kind = "dir"

\* metadata['handle'] = talk_handle
WithHandle(m, h) ==
    [f \in DOMAIN m \cup {"handle"} |-> IF f = "handle" THEN h ELSE m[f]]

-----------------------------------------------------------------------------
(* generate_landing_page: the listing *)

\* sorted(..., key=lambda t: t['date'], reverse=True): the position a talk takes
\* among the talks already placed, after every talk whose date is not earlier
\* a mutant of InsertAt: a talk goes before the talks of its own date
InsertAtBeforeEqual(s, t) ==
    Cardinality({i \in 1..Len(s) : DateLT(t.date, s[i].date)})

InsertAt(s, t) ==
    Cardinality({i \in 1..Len(s) : DateLE(t.date, s[i].date)})

SortedInsert(s, t) ==
    LET k == InsertAt(s, t)
    IN  SubSeq(s, 1, k) \o <<t>> \o SubSeq(s, k + 1, Len(s))

RECURSIVE SortedPrefix(_, _)
SortedPrefix(batch, n) ==
    IF n = 0 THEN <<>> ELSE SortedInsert(SortedPrefix(batch, n - 1), batch[n])

sorted_talks(batch) == SortedPrefix(batch, Len(batch))

\* talks_by_year[year]: the talks of a year, in sorted order
talks_by_year(sorted, year) ==
    LET OfYear(t) == t.date.year = year IN SelectSeq(sorted, OfYear)

MaxOf(S) == CHOOSE m \in S : \A x \in S : x <= m

\* sorted(talks_by_year.keys(), reverse=True)
RECURSIVE YearsDescending(_)
YearsDescending(S) ==
    IF S = {} THEN <<>> ELSE <<MaxOf(S)>> \o YearsDescending(S \ {MaxOf(S)})

RECURSIVE Digits(_)
Digits(n) == IF n < 10 THEN <<n>> ELSE Digits(n \div 10) \o <<n % 10>>

\* f"{highlight:0{padding}d}"
ZeroPad(n, width) ==
    LET d == Digits(n)
    IN  IF Len(d) >= width THEN d ELSE [i \in 1..(width - Len(d)) |-> 0] \o d

\* a mutant of Padding: three digits only above the threshold
PaddingAboveThreshold(num_slides) == IF num_slides > PaddingThreshold THEN 3 ELSE 2

Padding(num_slides) == IF num_slides >= PaddingThreshold THEN 3 ELSE 2

highlight_img(highlight, num_slides) ==
    <<"slide-", ZeroPad(highlight, Padding(num_slides)), ".png">>

YearHeading(year) == [kind |-> "year-heading", year |-> year]

TalkEntry(talk, o) ==
    [kind |-> "talk-entry", handle |-> talk.handle, title |-> talk.title,
     pdf |-> <<talk.handle, talk.pdf>>, img |-> highlight_img(talk.highlight, o[talk.handle].slides)]

YearEntries(sorted, year, o) ==
    LET ts == talks_by_year(sorted, year)
    IN  <<YearHeading(year)>> \o [i \in 1..Len(ts) |-> TalkEntry(ts[i], o)]

RECURSIVE AllEntriesFrom(_, _, _, _)
AllEntriesFrom(years, i, sorted, o) ==
    IF i > Len(years) THEN <<>>
    ELSE YearEntries(sorted, years[i], o) \o AllEntriesFrom(years, i + 1, sorted, o)

all_entries(batch, o) ==
    LET sorted == sorted_talks(batch)
        years == YearsDescending({sorted[i].date.year : i \in 1..Len(sorted)})
    IN  AllEntriesFrom(years, 1, sorted, o)

\* sorting or t['date'].year raises when a `date` is not a date
RenderRaises(batch) == \E i \in 1..Len(batch) : ~IsDate(batch[i].date)

Page(entries, now) == [kind |-> "page", entries |-> entries, stamp |-> now]


-----------------------------------------------------------------------------
(* Error messages *)

Error(kind, u) == [kind |-> kind, unit |-> u]

NoError == Error("none", 0)

\* print_summary's lists
newly_processed ==
    SelectSeq([i \in 1..Len(processed_talks) |-> processed_talks[i].handle],
              LAMBDA h : \A j \in 1..Len(skipped_talks) : skipped_talks[j] # h)

-----------------------------------------------------------------------------
(* The state after construction *)

Idle == {"idle", "exit0", "exit1", "crashed"}

InitProgram ==
    /\ landing = NoPage
    /\ assets = FALSE
    /\ clock = 0
    /\ run = 0
    /\ force = FALSE
    /\ pcMain = "idle"
    /\ pc = [u \in Units |-> "none"]
    /\ queue = <<>>
    /\ metadata = [u \in Units |-> None]
    /\ pending = [u \in Units |-> NoError]
    /\ lock = Free
    /\ processed_talks = <<>>
    /\ skipped_talks = <<>>
    /\ errors = <<>>
    /\ summary = NoSummary
    /\ invoked = {}
    /\ prev = Snapshot(NoPage, out, FALSE)

IsTalkDir(e) == e.isDir /\ ~e.hidden

\* The input root holds NumUnits entries; the output root is fresh, or holds
\* what an earlier publication of a talk directory left.
Init ==
    /\ root \in {"missing", "file", "dir"}
    /\ talks \in [1..NumUnits -> UNION {Entries(u) : u \in 1..NumUnits}]
    /\ \A u \in 1..NumUnits : talks[u] \in Entries(u)
    /\ root # "dir" => \A u \in 1..NumUnits : talks[u] = Entry(FALSE, FALSE, NoFile, {}, 0)
    /\ out \in [1..NumUnits -> {NoOutput, Published(57)}]
    /\ \A u \in 1..NumUnits : ~IsTalkDir(talks[u]) => out[u] = NoOutput
    /\ InitProgram

-----------------------------------------------------------------------------
(* main and TalkProcessor.__init__ *)

Main(f) ==
    /\ pcMain \in Idle
    /\ run < MaxRuns
    /\ run' = run + 1
    /\ force' = f
    /\ processed_talks' = <<>>
    /\ skipped_talks' = <<>>
    /\ errors' = <<>>
    /\ lock' = Free
    /\ summary' = NoSummary
    /\ invoked' = {}
    /\ prev' = Snapshot(landing, out, force)
    /\ pc' = [u \in Units |-> "none"]
    /\ metadata' = [u \in Units |-> None]
    /\ pending' = [u \in Units |-> NoError]
    /\ queue' = <<>>
    /\ pcMain' = IF root = "missing" THEN "exit1" ELSE "process_all"
    /\ UNCHANGED <<root, talks, out, landing, assets, clock>>

-----------------------------------------------------------------------------
(* process_all: discovery and dispatch *)

talk_dirs == {u \in Units : IsTalkDir(talks[u])}

RECURSIVE SortedSeq(_)
SortedSeq(S) ==
    IF S = {} THEN <<>>
    ELSE LET m == CHOOSE x \in S : \A y \in S : x <= y
         IN  <<m>> \o SortedSeq(S \ {m})

Discover ==
    /\ pcMain = "process_all"
    /\ IF root = "file"
       THEN /\ pcMain' = "crashed"
            /\ UNCHANGED <<pc, queue>>
       ELSE IF talk_dirs = {}
       THEN /\ pcMain' = "exit0"
            /\ UNCHANGED <<pc, queue>>
       ELSE /\ pcMain' = "pool"
            /\ queue' = SortedSeq(talk_dirs)
            /\ pc' = [u \in Units |-> IF u \in talk_dirs THEN "queued" ELSE "none"]
    /\ UNCHANGED <<root, talks, out, landing, assets, clock, run, force, metadata,
                   pending, lock, processed_talks, skipped_talks, errors,
                   summary, invoked, prev>>

\* the units a worker thread is running
Running == {u \in Units : pc[u] \notin {"none", "queued", "done", "failed", "raised", "collecting"}}

\* a mutant of Start: a pool of one worker
StartWhenIdle(u) ==
    /\ pcMain = "pool"
    /\ queue # <<>>
    /\ u = Head(queue)
    /\ Running = {}
    /\ queue' = Tail(queue)
    /\ pc' = [pc EXCEPT ![u] = "load"]
    /\ UNCHANGED <<root, talks, out, landing, assets, clock, run, force, pcMain,
                   metadata, pending, lock, processed_talks, skipped_talks,
                   errors, summary, invoked, prev>>

\* a mutant of Start: a queued unit starts whatever the number of running units
StartUnbounded(u) ==
    /\ pcMain = "pool"
    /\ queue # <<>>
    /\ u = Head(queue)
    /\ queue' = Tail(queue)
    /\ pc' = [pc EXCEPT ![u] = "load"]
    /\ UNCHANGED <<root, talks, out, landing, assets, clock, run, force, pcMain,
                   metadata, pending, lock, processed_talks, skipped_talks,
                   errors, summary, invoked, prev>>

Start(u) ==
    /\ pcMain = "pool"
    /\ queue # <<>>
    /\ u = Head(queue)
    /\ Cardinality(Running) < max_workers
    /\ queue' = Tail(queue)
    /\ pc' = [pc EXCEPT ![u] = "load"]
    /\ UNCHANGED <<root, talks, out, landing, assets, clock, run, force, pcMain,
                   metadata, pending, lock, processed_talks, skipped_talks,
                   errors, summary, invoked, prev>>

-----------------------------------------------------------------------------
(* process_talk *)

\* lines 66-77: the descriptor is looked for and loaded
LoadMetadata(u) ==
    /\ pc[u] = "load"
    /\ LET file == talks[u].meta
       IN  IF file.kind = "absent"
           THEN /\ pending' = [pending EXCEPT ![u] = Error("No metadata.yml found", u)]
                /\ pc' = [pc EXCEPT ![u] = "report"]
                /\ UNCHANGED metadata
           ELSE LET r == parse_metadata(file)
                IN  IF r.ok
                    THEN /\ metadata' = [metadata EXCEPT ![u] = r.talk]
                         /\ pc' = [pc EXCEPT ![u] = "check"]
                         /\ UNCHANGED pending
                    ELSE /\ pending' = [pending EXCEPT ![u] = Error("Error parsing", u)]
                         /\ pc' = [pc EXCEPT ![u] = "report"]
                         /\ UNCHANGED metadata
    /\ UNCHANGED <<root, talks, out, landing, assets, clock, run, force, pcMain,
                   queue, lock, processed_talks, skipped_talks, errors, summary,
                   invoked, prev>>

\* a mutant of ShouldSkip: the force flag is forgotten
ShouldSkipDespiteForce(u) == is_talk_processed(out[u])

\* line 80
ShouldSkip(u) == ~force /\ is_talk_processed(out[u])

CheckProcessed(u) ==
    /\ pc[u] = "check"
    /\ pc' = [pc EXCEPT ![u] = IF ShouldSkip(u) THEN "skip" ELSE "asset"]
    /\ UNCHANGED <<root, talks, out, landing, assets, clock, run, force, pcMain,
                   queue, metadata, pending, lock, processed_talks,
                   skipped_talks, errors, summary, invoked, prev>>

\* a mutant of FindAsset: the source asset is not looked for
FindAssetUnchecked(u) ==
    /\ pc[u] = "asset"
    /\ pc' = [pc EXCEPT ![u] = "mkdir"]
    /\ UNCHANGED <<root, talks, out, landing, assets, clock, run, force, pcMain,
                   queue, metadata, pending, lock, processed_talks,
                   skipped_talks, errors, summary, invoked, prev>>

\* lines 88-93
FindAsset(u) ==
    /\ pc[u] = "asset"
    /\ IF metadata[u].pdf \in talks[u].files
       THEN /\ pc' = [pc EXCEPT ![u] = "mkdir"]
            /\ UNCHANGED pending
       ELSE /\ pending' = [pending EXCEPT ![u] = Error("PDF file not found", u)]
            /\ pc' = [pc EXCEPT ![u] = "report"]
    /\ UNCHANGED <<root, talks, out, landing, assets, clock, run, force, pcMain,
                   queue, metadata, lock, processed_talks, skipped_talks,
                   errors, summary, invoked, prev>>

\* lines 95-97
MakeOutputDir(u) ==
    /\ pc[u] = "mkdir"
    /\ out' = [out EXCEPT ![u].kind = "dir"]
    /\ pc' = [pc EXCEPT ![u] = "convert"]
    /\ UNCHANGED <<root, talks, landing, assets, clock, run, force, pcMain, queue,
                   metadata, pending, lock, processed_talks, skipped_talks,
                   errors, summary, invoked, prev>>

\* lines 99-116: subprocess.run is entered
InvokeConversion(u) ==
    /\ pc[u] = "convert"
    /\ invoked' = invoked \cup {u}
    /\ pc' = [pc EXCEPT ![u] = "converting"]
    /\ UNCHANGED <<root, talks, out, landing, assets, clock, run, force, pcMain,
                   queue, metadata, pending, lock, processed_talks,
                   skipped_talks, errors, summary, prev>>

\* what ./script.sh may do: end with status zero, end with a non-zero status,
\* or not be run at all (subprocess.run raises an OSError)
ConversionOutcomes == {"zero", "nonzero", "oserror"}

\* a mutant of ConversionReturns: the status is not checked (check=False), so
\* a unit whose conversion failed goes on to be copied and attached
ConversionReturnsUnchecked(u, outcome) ==
    /\ pc[u] = "converting"
    /\ CASE outcome = "zero" ->
              /\ out' = [out EXCEPT ![u].index = TRUE, ![u].slides = talks[u].pages]
              /\ pc' = [pc EXCEPT ![u] = "copy"]
              /\ UNCHANGED pending
         [] outcome = "nonzero" ->
              /\ pending' = [pending EXCEPT ![u] = Error("Error processing", u)]
              /\ pc' = [pc EXCEPT ![u] = "copy"]
              /\ UNCHANGED out
         [] outcome = "oserror" ->
              /\ pc' = [pc EXCEPT ![u] = "raised"]
              /\ UNCHANGED <<out, pending>>
    /\ UNCHANGED <<root, talks, landing, assets, clock, run, force, pcMain, queue,
                   metadata, lock, processed_talks, skipped_talks, errors,
                   summary, invoked, prev>>

\* lines 111-122: subprocess.run returns or raises
ConversionReturns(u, outcome) ==
    /\ pc[u] = "converting"
    /\ CASE outcome = "zero" ->
              /\ out' = [out EXCEPT ![u].index = TRUE, ![u].slides = talks[u].pages]
              /\ pc' = [pc EXCEPT ![u] = "copy"]
              /\ UNCHANGED pending
         [] outcome = "nonzero" ->
              /\ pending' = [pending EXCEPT ![u] = Error("Error processing", u)]
              /\ pc' = [pc EXCEPT ![u] = "report"]
              /\ UNCHANGED out
         [] outcome = "oserror" ->
              /\ pc' = [pc EXCEPT ![u] = "raised"]
              /\ UNCHANGED <<out, pending>>
    /\ UNCHANGED <<root, talks, landing, assets, clock, run, force, pcMain, queue,
                   metadata, lock, processed_talks, skipped_talks, errors,
                   summary, invoked, prev>>

\* lines 124-129
CopyPdf(u) ==
    /\ pc[u] = "copy"
    /\ out' = [out EXCEPT ![u].pdf = TRUE]
    /\ metadata' = [metadata EXCEPT ![u] = WithHandle(metadata[u], u)]
    /\ pc' = [pc EXCEPT ![u] = "attach"]
    /\ UNCHANGED <<root, talks, landing, assets, clock, run, force, pcMain, queue,
                   pending, lock, processed_talks, skipped_talks, errors,
                   summary, invoked, prev>>

\* `with self.lock:` is entered (lines 54, 70, 81, 91, 120, 130)
LockedPc(p) ==
    CASE p = "report" -> "reporting"
      [] p = "skip" -> "skipping"
      [] p = "attach" -> "attaching"

\* a mutant of Acquire: the append block is entered without taking the lock
EnterUnlocked(u) ==
    /\ pc[u] \in {"report", "skip", "attach"}
    /\ pc' = [pc EXCEPT ![u] = LockedPc(pc[u])]
    /\ UNCHANGED <<root, talks, out, landing, assets, clock, run, force, pcMain,
                   queue, metadata, pending, lock, processed_talks,
                   skipped_talks, errors, summary, invoked, prev>>

Acquire(u) ==
    /\ pc[u] \in {"report", "skip", "attach"}
    /\ lock = Free
    /\ lock' = u
    /\ pc' = [pc EXCEPT ![u] = LockedPc(pc[u])]
    /\ UNCHANGED <<root, talks, out, landing, assets, clock, run, force, pcMain,
                   queue, metadata, pending, processed_talks, skipped_talks,
                   errors, summary, invoked, prev>>

\* lines 55, 71, 92, 121: the error is appended and the lock released
ReportError(u) ==
    /\ pc[u] = "reporting"
    /\ errors' = Append(errors, pending[u])
    /\ lock' = Free
    /\ pc' = [pc EXCEPT ![u] = "failed"]
    /\ UNCHANGED <<root, talks, out, landing, assets, clock, run, force, pcMain,
                   queue, metadata, pending, processed_talks, skipped_talks,
                   summary, invoked, prev>>

\* a mutant of SkipTalk: the skipped unit is not attached to processed_talks
SkipTalkUnlisted(u) ==
    /\ pc[u] = "skipping"
    /\ skipped_talks' = Append(skipped_talks, u)
    /\ lock' = Free
    /\ pc' = [pc EXCEPT ![u] = "done"]
    /\ UNCHANGED <<root, talks, out, landing, assets, clock, run, force, pcMain,
                   queue, metadata, pending, processed_talks, errors, summary,
                   invoked, prev>>

\* lines 82-86
SkipTalk(u) ==
    /\ pc[u] = "skipping"
    /\ skipped_talks' = Append(skipped_talks, u)
    /\ metadata' = [metadata EXCEPT ![u] = WithHandle(metadata[u], u)]
    /\ processed_talks' = Append(processed_talks, WithHandle(metadata[u], u))
    /\ lock' = Free
    /\ pc' = [pc EXCEPT ![u] = "done"]
    /\ UNCHANGED <<root, talks, out, landing, assets, clock, run, force, pcMain,
                   queue, pending, errors, summary, invoked, prev>>

\* a mutant of AttachTalk: the processed unit is recorded as skipped as well
AttachTalkAsSkipped(u) ==
    /\ pc[u] = "attaching"
    /\ processed_talks' = Append(processed_talks, metadata[u])
    /\ skipped_talks' = Append(skipped_talks, u)
    /\ lock' = Free
    /\ pc' = [pc EXCEPT ![u] = "done"]
    /\ UNCHANGED <<root, talks, out, landing, assets, clock, run, force, pcMain,
                   queue, metadata, pending, errors, summary, invoked, prev>>

\* lines 130-133
AttachTalk(u) ==
    /\ pc[u] = "attaching"
    /\ processed_talks' = Append(processed_talks, metadata[u])
    /\ lock' = Free
    /\ pc' = [pc EXCEPT ![u] = "done"]
    /\ UNCHANGED <<root, talks, out, landing, assets, clock, run, force, pcMain,
                   queue, metadata, pending, skipped_talks, errors, summary,
                   invoked, prev>>

-----------------------------------------------------------------------------
(* process_all: the as_completed loop, the join and what follows *)

\* lines 279-284: future.result() raises and the lock is taken
CollectRaised(u) ==
    /\ pcMain = "pool"
    /\ pc[u] = "raised"
    /\ lock = Free
    /\ lock' = MainThread
    /\ pc' = [pc EXCEPT ![u] = "collecting"]
    /\ UNCHANGED <<root, talks, out, landing, assets, clock, run, force, pcMain,
                   queue, metadata, pending, processed_talks, skipped_talks,
                   errors, summary, invoked, prev>>

\* a mutant of RecordUnexpected: the exception is swallowed (except: pass)
SwallowUnexpected(u) ==
    /\ pc[u] = "collecting"
    /\ lock = MainThread
    /\ lock' = Free
    /\ pc' = [pc EXCEPT ![u] = "failed"]
    /\ UNCHANGED <<root, talks, out, landing, assets, clock, run, force, pcMain,
                   queue, metadata, pending, processed_talks, skipped_talks,
                   errors, summary, invoked, prev>>

\* line 285
RecordUnexpected(u) ==
    /\ pc[u] = "collecting"
    /\ lock = MainThread
    /\ errors' = Append(errors, Error("Unexpected error processing", u))
    /\ lock' = Free
    /\ pc' = [pc EXCEPT ![u] = "failed"]
    /\ UNCHANGED <<root, talks, out, landing, assets, clock, run, force, pcMain,
                   queue, metadata, pending, processed_talks, skipped_talks,
                   summary, invoked, prev>>

\* a mutant of AllReported: the join waits only for the queue to drain
AllDispatched == queue = <<>>

\* every future was yielded by as_completed and the executor has shut down
AllReported == \A u \in Units : pc[u] \in {"none", "done", "failed"}

Join ==
    /\ pcMain = "pool"
    /\ AllReported
    /\ pcMain' = "joined"
    /\ UNCHANGED <<root, talks, out, landing, assets, clock, run, force, pc,
                   queue, metadata, pending, lock, processed_talks,
                   skipped_talks, errors, summary, invoked, prev>>

\* a mutant of GenerateLandingPage: the `return False` of line 151 is missing,
\* and the page is written after the template error was recorded
GenerateLandingPageNoReturn(template, now) ==
    /\ pcMain = "joined"
    /\ processed_talks # <<>>
    /\ now >= clock
    /\ IF RenderRaises(processed_talks)
       THEN /\ pcMain' = "crashed"
            /\ errors' = IF template THEN errors
                         ELSE Append(errors, Error("Template file not found", 0))
            /\ UNCHANGED <<landing, clock>>
       ELSE /\ landing' = Page(all_entries(processed_talks, out), now)
            /\ clock' = now
            /\ pcMain' = "assets"
            /\ errors' = IF template THEN errors
                         ELSE Append(errors, Error("Template file not found", 0))
    /\ UNCHANGED <<root, talks, out, assets, run, force, pc, queue, metadata,
                   pending, lock, processed_talks, skipped_talks, summary,
                   invoked, prev>>

\* lines 288-289 and 144-247
GenerateLandingPage(template, now) ==
    /\ pcMain = "joined"
    /\ processed_talks # <<>>
    /\ now >= clock
    /\ IF ~template
       THEN /\ errors' = Append(errors, Error("Template file not found", 0))
            /\ pcMain' = "assets"
            /\ UNCHANGED <<landing, clock>>
       ELSE IF RenderRaises(processed_talks)
       THEN /\ pcMain' = "crashed"
            /\ UNCHANGED <<landing, clock, errors>>
       ELSE /\ landing' = Page(all_entries(processed_talks, out), now)
            /\ clock' = now
            /\ pcMain' = "assets"
            /\ UNCHANGED errors
    /\ UNCHANGED <<root, talks, out, assets, run, force, pc, queue, metadata,
                   pending, lock, processed_talks, skipped_talks, summary,
                   invoked, prev>>

\* lines 290 and 249-257; the stylesheet and the hero image are there to copy
CopyAssets ==
    /\ pcMain = "assets"
    /\ assets' = TRUE
    /\ pcMain' = "summary"
    /\ UNCHANGED <<root, talks, out, landing, clock, run, force, pc, queue,
                   metadata, pending, lock, processed_talks, skipped_talks,
                   errors, summary, invoked, prev>>

\* line 288 when nothing is listable
SkipRendering ==
    /\ pcMain = "joined"
    /\ processed_talks = <<>>
    /\ pcMain' = "summary"
    /\ UNCHANGED <<root, talks, out, landing, assets, clock, run, force, pc,
                   queue, metadata, pending, lock, processed_talks,
                   skipped_talks, errors, summary, invoked, prev>>

\* lines 293 and 295-322
PrintSummary ==
    /\ pcMain = "summary"
    /\ summary' = [newly |-> newly_processed, skipped |-> skipped_talks,
                   errors |-> errors,
                   none |-> (newly_processed = <<>> /\ skipped_talks = <<>>)]
    /\ pcMain' = "exit0"
    /\ UNCHANGED <<root, talks, out, landing, assets, clock, run, force, pc,
                   queue, metadata, pending, lock, processed_talks,
                   skipped_talks, errors, invoked, prev>>

-----------------------------------------------------------------------------

Next ==
    \/ \E f \in BOOLEAN : Main(f)
    \/ Discover
    \/ \E u \in Units : Start(u)
    \/ \E u \in Units : LoadMetadata(u)
    \/ \E u \in Units : CheckProcessed(u)
    \/ \E u \in Units : FindAsset(u)
    \/ \E u \in Units : MakeOutputDir(u)
    \/ \E u \in Units : InvokeConversion(u)
    \/ \E u \in Units, outcome \in ConversionOutcomes : ConversionReturns(u, outcome)
    \/ \E u \in Units : CopyPdf(u)
    \/ \E u \in Units : Acquire(u)
    \/ \E u \in Units : ReportError(u)
    \/ \E u \in Units : SkipTalk(u)
    \/ \E u \in Units : AttachTalk(u)
    \/ \E u \in Units : CollectRaised(u)
    \/ \E u \in Units : RecordUnexpected(u)
    \/ Join
    \/ \E template \in BOOLEAN, now \in 0..MaxDay : GenerateLandingPage(template, now)
    \/ CopyAssets
    \/ SkipRendering
    \/ PrintSummary

Spec == Init /\ [][Next]_vars

-----------------------------------------------------------------------------
(* The listing alone: generate_landing_page on any batch of listable          *)
(* descriptors. The state is the one process_all is in after the join of a    *)
(* run that processed every unit, the units having reported in any order.     *)

ListingDates == {Date(2023, 1, 1), Date(2023, 12, 31), Date(2024, 6, 1)}

ListingPages == {57, 120}

Orders(n) ==
    {s \in [1..n -> 1..n] : \A i, j \in 1..n : s[i] = s[j] => i = j}

InitListing ==
    /\ root = "dir"
    /\ \E n \in 1..MaxBatch :
          /\ talks \in [1..n -> UNION {{Entry(TRUE, FALSE, Yaml([talk |-> TalkOf(u, d)]),
                                              {"slides.pdf"}, p) :
                                            d \in ListingDates, p \in ListingPages} :
                                        u \in 1..n}]
          /\ \A u \in 1..n : talks[u].meta.data.talk.title = <<"Talk", u>>
          /\ \E order \in Orders(n) :
                processed_talks =
                    [i \in 1..n |-> WithHandle(talks[order[i]].meta.data.talk, order[i])]
    /\ out = [u \in Units |-> Published(talks[u].pages)]
    /\ landing = NoPage
    /\ assets = FALSE
    /\ clock = 0
    /\ run = 1
    /\ force = FALSE
    /\ pcMain = "joined"
    /\ pc = [u \in Units |-> "done"]
    /\ queue = <<>>
    /\ metadata = [u \in Units |-> WithHandle(talks[u].meta.data.talk, u)]
    /\ pending = [u \in Units |-> NoError]
    /\ lock = Free
    /\ skipped_talks = <<>>
    /\ errors = <<>>
    /\ summary = NoSummary
    /\ invoked = Units
    /\ prev = Snapshot(NoPage, [u \in Units |-> NoOutput], FALSE)

NextListing ==
    \/ \E template \in BOOLEAN, now \in 0..MaxDay : GenerateLandingPage(template, now)
    \/ CopyAssets
    \/ PrintSummary

SpecListing == InitListing /\ [][NextListing]_vars

-----------------------------------------------------------------------------
(* What the claims speak of *)

\* process_all is past the `with ThreadPoolExecutor` block
PastJoin == pcMain \in {"joined", "assets", "summary", "exit0", "crashed"}

ProcessedHandles == {processed_talks[i].handle : i \in 1..Len(processed_talks)}

SkippedHandles == {skipped_talks[i] : i \in 1..Len(skipped_talks)}

ErrorUnits == {errors[i].unit : i \in 1..Len(errors)}

Count(seq, x) == Cardinality({i \in 1..Len(seq) : seq[i] = x})

TalkEntryIndexes(page) ==
    {i \in 1..Len(page.entries) : page.entries[i].kind = "talk-entry"}

HeadingIndexes(page) ==
    {i \in 1..Len(page.entries) : page.entries[i].kind = "year-heading"}

ListedHandles(page) == {page.entries[i].handle : i \in TalkEntryIndexes(page)}

\* generate_landing_page has written the landing page in this run
LandingWritten ==
    /\ pcMain \in {"assets", "summary", "exit0"}
    /\ processed_talks # <<>>
    /\ \A i \in 1..Len(errors) : errors[i].kind # "Template file not found"

\* the talk section of the descriptor file of unit u
Descriptor(u) == talks[u].meta.data.talk

\* a unit that has an outcome has it recorded: listable, or an error
OwnOutcome(v) ==
    /\ pc[v] \in {"done", "failed"}
    /\ pc[v] = "done" <=> v \in ProcessedHandles
    /\ pc[v] = "failed" <=> v \in ErrorUnits

\* the year heading a listing entry stands under
HeadingOf(page, i) ==
    page.entries[MaxOf({j \in HeadingIndexes(page) : j < i})].year

-----------------------------------------------------------------------------
(* C1: when the external conversion of a unit ends with a non-zero status,  *)
(* the unit gets one error recorded and is never added to processed_talks;  *)
(* past the join every other unit has its own outcome, and the landing page *)
(* the run writes has an entry for every other unit that was processed or   *)
(* skipped.                                                                 *)

ConversionFailed(u) == pending[u] = Error("Error processing", u)

\* C1: a failed conversion costs only its own unit
C1_ConversionFailureIsolated ==
    \A u \in Units : ConversionFailed(u) =>
        /\ u \notin ProcessedHandles
        /\ u \notin SkippedHandles
        /\ pc[u] \in {"report", "reporting", "failed"}
        /\ pc[u] = "failed" => Count(errors, pending[u]) = 1
        /\ PastJoin =>
              /\ pc[u] = "failed"
              /\ \A v \in talk_dirs \ {u} : OwnOutcome(v)
        /\ LandingWritten =>
              /\ u \notin ListedHandles(landing)
              /\ \A v \in talk_dirs \ {u} :
                    (pc[v] = "done" \/ v \in SkippedHandles) =>
                        Cardinality({i \in TalkEntryIndexes(landing) :
                                        landing.entries[i].handle = v}) = 1

C1_Witness ==
    \E u, v \in Units :
        /\ u # v
        /\ ConversionFailed(u)
        /\ pc[u] = "failed"
        /\ pc[v] = "done"
        /\ pcMain = "exit0"
        /\ LandingWritten
        /\ v \in ListedHandles(landing)

-----------------------------------------------------------------------------
(* C2: a unit whose output subdirectory holds the index document when the   *)
(* run starts is never passed to the external conversion when force-mode is *)
(* off.  As claimed: under force-mode every such unit has the conversion    *)
(* invoked in that run.  As amended: under force-mode every such unit whose *)
(* descriptor loads and whose source asset exists has it invoked.           *)

Marked(u) == prev.out[u].index /\ prev.out[u].kind = "dir"

Loads(u) ==
    /\ talks[u].meta.kind = "yaml"
    /\ "talk" \in DOMAIN talks[u].meta.data
    /\ \A i \in 1..Len(required_fields) : required_fields[i] \in DOMAIN Descriptor(u)

AssetExists(u) == Descriptor(u).pdf \in talks[u].files

-----------------------------------------------------------------------------
(* C3: every unit recorded as Skipped has exactly one descriptor in         *)
(* processed_talks, the one loaded from its descriptor file with its handle *)
(* equal to its directory name, and the landing page the run writes lists   *)
(* it once, with that metadata, under the heading of its year.              *)

-----------------------------------------------------------------------------
(* C4: a second run in a row on the same input, force-mode off in both,     *)
(* skips every unit and leaves a landing page identical to the one of the   *)
(* first run.  Stated for the runs where the first run listed every talk   *)
(* directory and both runs stamped the page with the same day.             *)

\* C4: the second run skips every unit and writes the same landing page
C4_RerunIdentical ==
    ( /\ run = 2
      /\ pcMain = "exit0"
      /\ ~force /\ ~prev.force
      /\ prev.landing # NoPage
      /\ LandingWritten
      /\ ListedHandles(prev.landing) = talk_dirs
      /\ landing.stamp = prev.landing.stamp )
    => /\ SkippedHandles = talk_dirs
       /\ landing = prev.landing

-----------------------------------------------------------------------------
(* C5: a unit whose descriptor lacks the talk section or a required field   *)
(* (the date, say) gets one parse error recorded, never goes past the load, *)
(* is never in processed_talks, skipped_talks or a landing page, and past   *)
(* the join its siblings have their own outcomes.                           *)

LacksRequired(u) ==
    /\ talks[u].meta.kind = "yaml"
    /\ \/ "talk" \notin DOMAIN talks[u].meta.data
       \/ \E i \in 1..Len(required_fields) : required_fields[i] \notin DOMAIN Descriptor(u)

\* C5: a descriptor that lacks a required field costs only its own unit
C5_BrokenDescriptorIsolated ==
    \A u \in talk_dirs : LacksRequired(u) =>
        /\ pc[u] \in {"none", "queued", "load", "report", "reporting", "failed"}
        /\ u \notin ProcessedHandles
        /\ u \notin SkippedHandles
        /\ u \notin invoked
        /\ pc[u] = "failed" => Count(errors, Error("Error parsing", u)) = 1
        /\ landing # NoPage => u \notin ListedHandles(landing)
        /\ PastJoin =>
              /\ pc[u] = "failed"
              /\ \A v \in talk_dirs \ {u} : OwnOutcome(v)

C5_Witness ==
    \E u, v \in talk_dirs :
        /\ talks[u].meta = Yaml([talk |-> TalkWithoutDate(u)])
        /\ pc[u] = "failed"
        /\ Error("Error parsing", u) \in {errors[i] : i \in 1..Len(errors)}
        /\ pc[v] = "done"
        /\ pcMain = "exit0"
        /\ LandingWritten
        /\ ListedHandles(landing) = {v}

-----------------------------------------------------------------------------
(* C6: past the join no dispatched unit is queued or being processed and    *)
(* the lock is free: generate_landing_page, copy_assets and print_summary   *)
(* run, and the landing page and the summary are written, only when every   *)
(* dispatched unit has reported its outcome.                                *)

\* C6: nothing is rendered or summarised before every unit has reported
C6_JoinIsBarrier ==
    (PastJoin \/ summary # NoSummary \/ landing # prev.landing) =>
        /\ \A u \in talk_dirs : pc[u] \in {"done", "failed"}
        /\ \A u \in Units \ talk_dirs : pc[u] = "none"
        /\ queue = <<>>
        /\ lock = Free

C6_Witness ==
    \E u, v \in talk_dirs :
        /\ pcMain = "joined"
        /\ pc[u] = "done"
        /\ pc[v] = "failed"
        /\ v \in invoked

-----------------------------------------------------------------------------
(* C7: while the workers run, every change of processed_talks,              *)
(* skipped_talks and errors is an append made by the thread that holds the  *)
(* lock, of an entry of that thread's own unit; no append is lost (every    *)
(* unit that has passed its append is in the collections, once); and a      *)
(* worker holds the lock only inside an append block, never at the external *)
(* conversion or a filesystem operation.                                    *)

Appended(s, t) == Len(t) = Len(s) + 1 /\ SubSeq(t, 1, Len(s)) = s

Last(s) == s[Len(s)]

HandlesOf(batch) == [i \in 1..Len(batch) |-> batch[i].handle]

UnitsOf(errs) == [i \in 1..Len(errs) |-> errs[i].unit]

C7_Step ==
    /\ (pcMain = "pool" /\ pcMain' = "pool") =>
          /\ errors' # errors =>
                /\ Appended(errors, errors')
                /\ lock # Free
                /\ lock \in Units => Last(errors').unit = lock
          /\ processed_talks' # processed_talks =>
                /\ Appended(processed_talks, processed_talks')
                /\ lock \in Units
                /\ Last(processed_talks').handle = lock
          /\ skipped_talks' # skipped_talks =>
                /\ Appended(skipped_talks, skipped_talks')
                /\ lock \in Units
                /\ Last(skipped_talks') = lock
          /\ \A u \in Units :
                /\ Count(HandlesOf(processed_talks'), u) = (IF pc'[u] = "done" THEN 1 ELSE 0)
                /\ Count(UnitsOf(errors'), u) = (IF pc'[u] = "failed" THEN 1 ELSE 0)
    /\ lock' \in Units => pc'[lock'] \in {"reporting", "skipping", "attaching"}
    /\ lock' = MainThread => \E u \in Units : pc'[u] = "collecting"
    /\ \A u \in Units : pc'[u] \in {"reporting", "skipping", "attaching"} => lock' = u

\* C7: every step appends under the lock, loses no append, and holds the
\* lock only inside an append block
C7_AppendsUnderLock == [][C7_Step]_vars

C7_Witness ==
    \E u, v \in Units :
        /\ lock = u
        /\ pc[u] = "attaching"
        /\ pc[v] \in {"report", "skip", "attach"}

-----------------------------------------------------------------------------
(* C8: an exception that escapes process_talk for a unit becomes exactly    *)
(* one recorded error of that unit, appended by the orchestrator; the unit  *)
(* is not listable, process_all does not stop at it (the only uncaught      *)
(* exception of a run with talk directories is the renderer's), and past    *)
(* the join the unit has failed and its siblings have their own outcomes.   *)

Escaped(u) ==
    \/ pc[u] \in {"raised", "collecting"}
    \/ pc[u] = "failed" /\ pending[u] = NoError

ErrorsOfUnit(u) == SelectSeq(errors, LAMBDA e : e.unit = u)

\* C8: an escaped exception is one recorded error of its unit
C8_EscapedExceptionRecorded ==
    \A u \in Units : Escaped(u) =>
        /\ u \in invoked
        /\ u \notin ProcessedHandles
        /\ u \notin SkippedHandles
        /\ ErrorsOfUnit(u) = IF pc[u] = "failed"
                             THEN <<Error("Unexpected error processing", u)>>
                             ELSE <<>>
        /\ pcMain = "crashed" => RenderRaises(processed_talks)
        /\ PastJoin =>
              /\ pc[u] = "failed"
              /\ \A v \in talk_dirs \ {u} : OwnOutcome(v)

C8_Witness ==
    \E u, v \in Units :
        /\ Escaped(u)
        /\ pc[u] = "failed"
        /\ pc[v] = "done"
        /\ pcMain = "exit0"
        /\ summary # NoSummary
        /\ Error("Unexpected error processing", u) \in {summary.errors[i] : i \in 1..Len(summary.errors)}

-----------------------------------------------------------------------------
(* C9: a run whose input root exists ends with print_summary reached and    *)
(* status zero, whatever the units are; a run ends non-zero only when the   *)
(* input root does not exist.  Stated for the runs whose input root is a    *)
(* directory that holds at least one talk directory: such a run, once over, *)
(* has printed the summary and exited with status zero.                     *)

\* C9: a run over talk directories ends with the summary and status zero
C9_AlwaysSummaryThenExitZero ==
    (root = "dir" /\ talk_dirs # {} /\ pcMain \in {"exit0", "exit1", "crashed"}) =>
        pcMain = "exit0" /\ summary # NoSummary

-----------------------------------------------------------------------------
(* C10: the listing has one year heading per year of the batch, the years   *)
(* strictly descending; under each heading stand exactly the talks of that  *)
(* year, each talk of the batch once, by descending date, talks of equal    *)
(* date in their order of arrival in the batch; and for the dates           *)
(* 2023-01-01 (A), 2024-06-01 (B), 2023-12-31 (C) the listing is            *)
(* [2024: B], [2023: C, A].                                                 *)

\* the place of a handle in the batch
Arrival(h) == CHOOSE k \in 1..Len(processed_talks) : processed_talks[k].handle = h

DateOfHandle(h) == processed_talks[Arrival(h)].date

\* a listing as the sequence of its years and handles
Shape(page) ==
    [i \in 1..Len(page.entries) |->
        IF page.entries[i].kind = "year-heading"
        THEN page.entries[i].year
        ELSE page.entries[i].handle]

ExampleBatch ==
    /\ Len(processed_talks) = 3
    /\ processed_talks[1].date = Date(2023, 1, 1)
    /\ processed_talks[2].date = Date(2024, 6, 1)
    /\ processed_talks[3].date = Date(2023, 12, 31)

\* C10: years descending, dates descending within a year, ties in arrival order
C10_ListingOrder ==
    landing # NoPage =>
        LET es == landing.entries
            H == HeadingIndexes(landing)
            T == TalkEntryIndexes(landing)
        IN  /\ \A i, j \in H : i < j => es[i].year > es[j].year
            /\ {es[i].year : i \in H} =
                   {processed_talks[k].date.year : k \in 1..Len(processed_talks)}
            /\ Len(es) = Len(processed_talks) + Cardinality(H)
            /\ \A k \in 1..Len(processed_talks) :
                   Cardinality({i \in T : es[i].handle = processed_talks[k].handle}) = 1
            /\ 1 \in H
            /\ \A i \in T : HeadingOf(landing, i) = DateOfHandle(es[i].handle).year
            /\ \A i, j \in T :
                   (i < j /\ HeadingOf(landing, i) = HeadingOf(landing, j)) =>
                       /\ DateLE(DateOfHandle(es[j].handle), DateOfHandle(es[i].handle))
                       /\ DateOfHandle(es[i].handle) = DateOfHandle(es[j].handle) =>
                              Arrival(es[i].handle) < Arrival(es[j].handle)
            /\ ExampleBatch =>
                   Shape(landing) = <<2024, processed_talks[2].handle,
                                      2023, processed_talks[3].handle,
                                      processed_talks[1].handle>>

C10_Witness ==
    /\ landing # NoPage
    /\ ExampleBatch
    /\ Shape(landing) = <<2024, processed_talks[2].handle,
                          2023, processed_talks[3].handle, processed_talks[1].handle>>

-----------------------------------------------------------------------------
(* Runs that start from a fresh output root, over descriptors whose values   *)
(* the load does not look at, and with a copy of the source asset that may   *)
(* fail.                                                                      *)

\* a descriptor whose talk section carries a `handle` key of its own
TalkWithRawHandle(u) ==
    [title |-> <<"Talk", u>>, pdf |-> "slides.pdf", description |-> "text",
     highlight |-> 3, date |-> D1, handle |-> <<"Talk", u>>]

\* the descriptors that load: a date, a null `date:` (None), a raw handle
FreshDescriptors(u) ==
    {Yaml([talk |-> TalkOf(u, D1)]), Yaml([talk |-> TalkOf(u, None)]),
     Yaml([talk |-> TalkWithRawHandle(u)])}

FreshEntries(u) ==
    {Entry(FALSE, FALSE, NoFile, {}, 0), Entry(TRUE, FALSE, NoFile, {"slides.pdf"}, 57)}
    \cup {Entry(TRUE, FALSE, m, f, 57) :
              m \in FreshDescriptors(u), f \in {{}, {"slides.pdf"}}}

InitFresh ==
    /\ root = "dir"
    /\ talks \in [1..NumUnits -> UNION {FreshEntries(u) : u \in 1..NumUnits}]
    /\ \A u \in 1..NumUnits : talks[u] \in FreshEntries(u)
    /\ out = [u \in 1..NumUnits |-> NoOutput]
    /\ InitProgram

\* line 126: shutil.copy2 raises (the disk is full, the asset has gone); the
\* exception escapes process_talk
CopyPdfRaises(u) ==
    /\ pc[u] = "copy"
    /\ pc' = [pc EXCEPT ![u] = "raised"]
    /\ UNCHANGED <<root, talks, out, landing, assets, clock, run, force, pcMain,
                   queue, metadata, pending, lock, processed_talks,
                   skipped_talks, errors, summary, invoked, prev>>

NextFresh ==
    \/ Next
    \/ \E u \in Units : CopyPdfRaises(u)

SpecFresh == InitFresh /\ [][NextFresh]_vars

-----------------------------------------------------------------------------
(* C11: a descriptor that has loaded has every required field present and    *)
(* not null, and carries no `handle` before process_talk assigns it (at the   *)
(* skip, or after the copy); every descriptor of processed_talks is the one   *)
(* of its unit, its `handle` the name of the unit's directory.  Of the        *)
(* required fields the model draws only `date` as null.                       *)

Loaded(u) == metadata[u] # None

BeforeHandle(u) ==
    pc[u] \in {"check", "skip", "skipping", "asset", "mkdir", "convert",
               "converting", "copy"}

C11_HandleIsDirectoryName ==
    \A i \in 1..Len(processed_talks) :
        LET h == processed_talks[i].handle
        IN  /\ h \in talk_dirs
            /\ processed_talks[i] = WithHandle(Descriptor(h), h)

\* C11: a loaded descriptor has its required fields, none null, and gets its
\* handle, the directory name, from process_talk only
C11_LoadedDescriptorComplete ==
    /\ \A u \in Units : Loaded(u) =>
          /\ \A i \in 1..Len(required_fields) : required_fields[i] \in DOMAIN metadata[u]
          /\ metadata[u].date # None
          /\ BeforeHandle(u) => "handle" \notin DOMAIN metadata[u]
    /\ C11_HandleIsDirectoryName

-----------------------------------------------------------------------------
(* The highlight image alone: generate_landing_page on a batch of two talks, *)
(* each with any highlight index and any number of slide images in its       *)
(* output subdirectory.                                                      *)

Highlights == {1, 3, 12, 105}

SlideCounts == {9, 57, 99, 100, 120}

TalkWithHighlight(u, h) == [TalkOf(u, D1) EXCEPT !.highlight = h]

InitHighlight ==
    /\ root = "dir"
    /\ talks \in [1..2 -> UNION {{Entry(TRUE, FALSE, Yaml([talk |-> TalkWithHighlight(u, h)]),
                                        {"slides.pdf"}, p) :
                                      h \in Highlights, p \in SlideCounts} :
                                  u \in 1..2}]
    /\ \A u \in 1..2 : talks[u].meta.data.talk.title = <<"Talk", u>>
    /\ \E order \in Orders(2) :
          processed_talks =
              [i \in 1..2 |-> WithHandle(talks[order[i]].meta.data.talk, order[i])]
    /\ out = [u \in Units |-> Published(talks[u].pages)]
    /\ landing = NoPage
    /\ assets = FALSE
    /\ clock = 0
    /\ run = 1
    /\ force = FALSE
    /\ pcMain = "joined"
    /\ pc = [u \in Units |-> "done"]
    /\ queue = <<>>
    /\ metadata = [u \in Units |-> WithHandle(talks[u].meta.data.talk, u)]
    /\ pending = [u \in Units |-> NoError]
    /\ lock = Free
    /\ skipped_talks = <<>>
    /\ errors = <<>>
    /\ summary = NoSummary
    /\ invoked = Units
    /\ prev = Snapshot(NoPage, [u \in Units |-> NoOutput], FALSE)

SpecHighlight == InitHighlight /\ [][NextListing]_vars

-----------------------------------------------------------------------------
(* C12: the highlight image of a listing entry is named slide-<digits>.png,  *)
(* the digits being the highlight index in decimal, filled with zeros on the *)
(* left up to 2 digits when the unit's output subdirectory holds fewer than  *)
(* 100 slide images and up to 3 digits when it holds 100 or more: 57 slides  *)
(* and highlight 3 give slide-03.png, 120 slides give slide-003.png.         *)

RECURSIVE DecimalValue(_)
DecimalValue(d) ==
    IF Len(d) = 0 THEN 0 ELSE 10 * DecimalValue(SubSeq(d, 1, Len(d) - 1)) + d[Len(d)]

DecimalLength(n) == IF n < 10 THEN 1 ELSE IF n < 100 THEN 2 ELSE 3

WidthFor(n) == IF n < 100 THEN 2 ELSE 3

LargerOf(a, b) == IF a >= b THEN a ELSE b

\* C12: the highlight index is zero-padded to 2 digits below 100 slide
\* images and to 3 digits from 100 on
C12_HighlightPadding ==
    landing # NoPage =>
        \A i \in TalkEntryIndexes(landing) :
            LET h == landing.entries[i].handle
                hl == Descriptor(h).highlight
                n == out[h].slides
                img == landing.entries[i].img
            IN  /\ Len(img) = 3
                /\ img[1] = "slide-"
                /\ img[3] = ".png"
                /\ \A k \in 1..Len(img[2]) : img[2][k] \in 0..9
                /\ DecimalValue(img[2]) = hl
                /\ Len(img[2]) = LargerOf(WidthFor(n), DecimalLength(hl))
                /\ (n = 57 /\ hl = 3) => img = <<"slide-", <<0, 3>>, ".png">>
                /\ (n = 120 /\ hl = 3) => img = <<"slide-", <<0, 0, 3>>, ".png">>

C12_Witness ==
    /\ landing # NoPage
    /\ \E i, j \in TalkEntryIndexes(landing) :
          /\ out[landing.entries[i].handle].slides = 57
          /\ landing.entries[i].img = <<"slide-", <<0, 3>>, ".png">>
          /\ out[landing.entries[j].handle].slides = 120
          /\ landing.entries[j].img = <<"slide-", <<0, 0, 3>>, ".png">>

-----------------------------------------------------------------------------
(* C13: past the join every discovered unit has exactly one outcome:         *)
(* Processed (converted in this run, one descriptor in processed_talks, not  *)
(* in skipped_talks, no error), Skipped (not converted, once in               *)
(* skipped_talks, one descriptor in processed_talks, no error) or Failed (at *)
(* least one error, in neither list); nothing else is in the lists; and the  *)
(* summary's newly-processed and skipped lists are disjoint and together the *)
(* handles of processed_talks.                                               *)

IsProcessed(u) ==
    /\ Count(HandlesOf(processed_talks), u) = 1
    /\ Count(skipped_talks, u) = 0
    /\ ErrorsOfUnit(u) = <<>>
    /\ u \in invoked

IsSkipped(u) ==
    /\ Count(HandlesOf(processed_talks), u) = 1
    /\ Count(skipped_talks, u) = 1
    /\ ErrorsOfUnit(u) = <<>>
    /\ u \notin invoked

IsFailed(u) ==
    /\ Count(HandlesOf(processed_talks), u) = 0
    /\ Count(skipped_talks, u) = 0
    /\ ErrorsOfUnit(u) # <<>>

SetOf(seq) == {seq[i] : i \in 1..Len(seq)}

-----------------------------------------------------------------------------
(* C14: within a unit the completion check is made on a loaded descriptor;   *)
(* the conversion is invoked only with the source asset found and the output *)
(* subdirectory created; the asset is copied only after the conversion was   *)
(* invoked and ended with status zero; the unit is appended as Processed     *)
(* only with the copy made; and a unit whose source asset is missing gets    *)
(* its error without the conversion being invoked.                           *)

MissingAssetError(u) == Error("PDF file not found", u)

C14_Step ==
    \A u \in Units :
        \* the completion check
        /\ (pc[u] = "check" /\ pc'[u] # "check") =>
              /\ Loaded(u)
              /\ Loads(u)
              /\ pc'[u] \in {"skip", "asset"}
        \* the conversion is invoked
        /\ (u \notin invoked /\ u \in invoked') =>
              /\ pc[u] = "convert"
              /\ Loaded(u)
              /\ AssetExists(u)
              /\ out[u].kind = "dir"
              /\ pc'[u] = "converting"
        /\ pc'[u] = "converting" => u \in invoked'
        \* the source asset is copied
        /\ (out'[u].pdf # out[u].pdf \/ (pc[u] = "copy" /\ pc'[u] = "attach")) =>
              /\ pc[u] = "copy"
              /\ u \in invoked
              /\ out[u].index
              /\ pending[u] = NoError
              /\ out'[u].pdf
        /\ (pc[u] # "copy" /\ pc'[u] = "copy") =>
              /\ pc[u] = "converting"
              /\ out'[u].index
              /\ pending'[u] = NoError
        \* the unit is appended as Processed
        /\ (Count(HandlesOf(processed_talks'), u) > Count(HandlesOf(processed_talks), u)
              /\ u \notin SetOf(skipped_talks')) =>
              /\ pc[u] = "attaching"
              /\ u \in invoked
              /\ out[u].pdf /\ out[u].index
        \* a missing source asset
        /\ (Count(errors', MissingAssetError(u)) > Count(errors, MissingAssetError(u))) =>
              /\ Loads(u) /\ ~AssetExists(u)
              /\ u \notin invoked
        /\ (Loaded(u)' /\ Loads(u) /\ ~AssetExists(u)) => u \notin invoked'
        /\ (PastJoin' /\ Loads(u) /\ ~AssetExists(u) /\ u \notin SetOf(skipped_talks')) =>
              Count(errors', MissingAssetError(u)) = 1

\* C14: load, check, asset, directory, conversion, copy, append: in this order
C14_StepsInOrder == [][C14_Step]_vars

C14_Witness ==
    \E u, v \in talk_dirs :
        /\ pcMain = "joined"
        /\ pc[u] = "done" /\ u \in invoked /\ out[u].pdf /\ IsProcessed(u)
        /\ pc[v] = "failed" /\ v \notin invoked /\ errors = <<MissingAssetError(v)>>

-----------------------------------------------------------------------------
(* The pool alone: a run over more talk directories than the pool has        *)
(* workers, from the moment the first directories are all inside their       *)
(* external conversion, which goes on for as long as the rest of the run is  *)
(* looked at.  The other directories hold no metadata.yml: each is a load,   *)
(* an append of its error under the lock, and a return.                      *)

\* the number of talk directories of the input root, above max_workers
PoolUnits == 10

\* the fewest conversions under way at that moment
MinConverting == 5

MissingDescriptorDir == Entry(TRUE, FALSE, NoFile, {}, 0)

ConvertibleDir(u) == Entry(TRUE, FALSE, Yaml([talk |-> TalkOf(u, D1)]), {"slides.pdf"}, 57)

InitPool ==
    /\ root = "dir"
    /\ \E h \in MinConverting..max_workers :
          /\ talks = [u \in 1..PoolUnits |->
                         IF u <= h THEN ConvertibleDir(u) ELSE MissingDescriptorDir]
          /\ pc = [u \in 1..PoolUnits |-> IF u <= h THEN "converting" ELSE "queued"]
          /\ out = [u \in 1..PoolUnits |->
                       IF u <= h THEN [NoOutput EXCEPT !.kind = "dir"] ELSE NoOutput]
          /\ metadata = [u \in 1..PoolUnits |-> IF u <= h THEN TalkOf(u, D1) ELSE None]
          /\ invoked = 1..h
          /\ queue = [i \in 1..(PoolUnits - h) |-> h + i]
    /\ force \in BOOLEAN
    /\ landing = NoPage
    /\ assets = FALSE
    /\ clock = 0
    /\ run = 1
    /\ pcMain = "pool"
    /\ pending = [u \in Units |-> NoError]
    /\ lock = Free
    /\ processed_talks = <<>>
    /\ skipped_talks = <<>>
    /\ errors = <<>>
    /\ summary = NoSummary
    /\ prev = Snapshot(NoPage, [u \in Units |-> NoOutput], FALSE)

NextPool ==
    \/ \E u \in Units : Start(u)
    \/ \E u \in Units : LoadMetadata(u)
    \/ \E u \in Units : Acquire(u)
    \/ \E u \in Units : ReportError(u)

SpecPool == InitPool /\ [][NextPool]_vars

-----------------------------------------------------------------------------
(* C15: at every moment at most 8 units are being processed; the units are   *)
(* dispatched in the sorted order of their directory names (a unit starts    *)
(* only when every unit before it has started); and no unit is dispatched    *)
(* more than once in a run.                                                  *)

Queued == {u \in Units : pc[u] = "queued"}

Dispatched == {u \in Units : pc[u] \notin {"none", "queued"}}

C15_Step ==
    /\ Cardinality(Running') <= 8
    /\ \A i, j \in 1..Len(queue') : i < j => queue'[i] < queue'[j]
    /\ SetOf(queue') = Queued'
    /\ \A u \in Dispatched', v \in Queued' : u < v
    /\ Dispatched' \cup Queued' \subseteq talk_dirs
    /\ \A u \in Units :
          \* a dispatch takes the first unit waiting, and a unit waits once
          /\ (u \in Queued /\ u \notin Queued') =>
                /\ u = Head(queue)
                /\ \A v \in Queued : u <= v
                /\ pc'[u] = "load"
          /\ (u \notin Queued /\ u \in Queued') =>
                /\ pcMain = "process_all"
                /\ pc[u] = "none"
          /\ (pc[u] # "load" /\ pc'[u] = "load") => u \in Queued
          /\ (u \in Dispatched /\ u \notin Dispatched') => (run' = run + 1)

\* C15: at most 8 at once, in sorted order, each unit once
C15_PoolWidthAndOrder == [][C15_Step]_vars

C15_Witness ==
    /\ Cardinality(Running) = 8
    /\ queue # <<>>
    /\ \E u \in Dispatched : pc[u] = "failed"

-----------------------------------------------------------------------------
(* A hung conversion: subprocess.run has no timeout, and the conversion of   *)
(* the first talk directory, once entered, never returns.  Every other step  *)
(* of the pool is taken in the end: the threads are scheduled, the other     *)
(* conversions terminate, and the lock, held only for an append, is          *)
(* obtained by whoever waits for it.                                         *)

\* the unit whose conversion hangs
HungUnit == 1

NextHang ==
    \/ \E f \in BOOLEAN : Main(f)
    \/ Discover
    \/ \E u \in Units : Start(u)
    \/ \E u \in Units : LoadMetadata(u)
    \/ \E u \in Units : CheckProcessed(u)
    \/ \E u \in Units : FindAsset(u)
    \/ \E u \in Units : MakeOutputDir(u)
    \/ \E u \in Units : InvokeConversion(u)
    \/ \E u \in Units \ {HungUnit}, outcome \in ConversionOutcomes : ConversionReturns(u, outcome)
    \/ \E u \in Units : CopyPdf(u)
    \/ \E u \in Units : Acquire(u)
    \/ \E u \in Units : ReportError(u)
    \/ \E u \in Units : SkipTalk(u)
    \/ \E u \in Units : AttachTalk(u)
    \/ \E u \in Units : CollectRaised(u)
    \/ \E u \in Units : RecordUnexpected(u)
    \/ Join
    \/ \E template \in BOOLEAN, now \in 0..MaxDay : GenerateLandingPage(template, now)
    \/ CopyAssets
    \/ SkipRendering
    \/ PrintSummary

WorkerStep(u) ==
    \/ LoadMetadata(u)
    \/ CheckProcessed(u)
    \/ FindAsset(u)
    \/ MakeOutputDir(u)
    \/ InvokeConversion(u)
    \/ CopyPdf(u)
    \/ Acquire(u)
    \/ ReportError(u)
    \/ SkipTalk(u)
    \/ AttachTalk(u)

FairHang ==
    /\ \A u \in 1..NumUnits : WF_vars(Start(u))
    /\ \A u \in 1..NumUnits : WF_vars(WorkerStep(u))
    /\ \A u \in (1..NumUnits) \ {HungUnit} :
          WF_vars(\E outcome \in ConversionOutcomes : ConversionReturns(u, outcome))
    /\ \A u \in 1..NumUnits : WF_vars(CollectRaised(u) \/ RecordUnexpected(u))

SpecHang == Init /\ [][NextHang]_vars /\ FairHang

-----------------------------------------------------------------------------
(* C16: while the conversion of a unit hangs, the run stays in the pool: the *)
(* join does not complete, no landing page and no summary is written; and    *)
(* every other talk directory, started or still waiting when the conversion  *)
(* hung, reaches its outcome.                                                *)

Hung == pc[HungUnit] = "converting"

Stalled ==
    /\ pcMain = "pool"
    /\ landing = prev.landing
    /\ summary = NoSummary
    /\ HungUnit \notin ProcessedHandles \cup SkippedHandles \cup ErrorUnits

OthersReported == \A v \in talk_dirs \ {HungUnit} : OwnOutcome(v)

\* C16: a hung conversion stalls its own slot and the join, nothing else
C16_HangStallsOnlyItsSlot ==
    /\ [](Hung => Stalled)
    /\ [](Hung => []Hung)
    /\ Hung ~> (Hung /\ Stalled /\ OthersReported)

C16_Witness ==
    \E v \in talk_dirs \ {HungUnit} :
        /\ Hung
        /\ v \in invoked
        /\ pc[v] = "done"
        /\ v \in ProcessedHandles
        /\ pcMain = "pool"

-----------------------------------------------------------------------------
(* C17: past the join, generate_landing_page and copy_assets are invoked if  *)
(* and only if processed_talks is not empty (a unit was processed or         *)
(* skipped); when it is empty the landing page and the assets are left as    *)
(* they were and the summary says that no talks were found.                  *)

\* process_all leaves line 288 for the renderer and then the asset copy, or
\* for the summary
C17_AfterJoin ==
    (pcMain = "joined" /\ pcMain' # "joined") =>
        IF processed_talks # <<>>
        THEN pcMain' = "assets"
        ELSE pcMain' = "summary" /\ landing' = landing /\ assets' = assets

C17_Rest ==
    /\ (pcMain = "assets" /\ pcMain' # "assets") =>
          /\ processed_talks # <<>>
          /\ assets'
          /\ pcMain' = "summary"
    /\ landing' # landing => (pcMain = "joined" /\ processed_talks # <<>>)
    /\ assets' # assets => (pcMain = "assets" /\ processed_talks # <<>>)
    /\ (summary = NoSummary /\ summary' # NoSummary) =>
          (summary'.none <=> processed_talks = <<>>)

\* C17: rendering and asset copy if and only if a unit is listable
C17_RenderIffListable == [][C17_AfterJoin /\ C17_Rest]_vars

\* the same, but for the runs in which generate_landing_page raises
C17_UnlessRendererRaises ==
    [][(pcMain' # "crashed" => C17_AfterJoin) /\ C17_Rest]_vars

-----------------------------------------------------------------------------
(* C18: when the template is missing at render time, generate_landing_page   *)
(* appends one error, the only one of its kind in the run, and writes        *)
(* nothing: the landing page stays as the run found it, processed_talks and  *)
(* skipped_talks stay as they are; copy_assets still follows; and the        *)
(* summary prints the error.                                                 *)

TemplateError == Error("Template file not found", 0)

C18_Step ==
    \* the renderer returns: with the error and nothing written, or with the page
    /\ (pcMain = "joined" /\ pcMain' = "assets") =>
          \/ /\ errors' = Append(errors, TemplateError)
             /\ Count(errors, TemplateError) = 0
             /\ landing' = landing
             /\ landing' = prev.landing
             /\ clock' = clock
             /\ processed_talks' = processed_talks
             /\ skipped_talks' = skipped_talks
             /\ out' = out /\ assets' = assets
          \/ /\ errors' = errors
             /\ Count(errors, TemplateError) = 0
             /\ landing' = Page(all_entries(processed_talks, out), clock')
    \* the error comes from nowhere else
    /\ Count(errors', TemplateError) # Count(errors, TemplateError) =>
          \/ pcMain = "joined" /\ pcMain' = "assets"
          \/ errors' = <<>>
    \* and stays to be printed
    /\ (Count(errors, TemplateError) = 1 /\ run' = run) =>
          /\ Count(errors', TemplateError) = 1
          /\ landing' = prev.landing
          /\ processed_talks' = processed_talks
          /\ skipped_talks' = skipped_talks
          /\ pcMain' \in {"assets", "summary", "exit0"}
    /\ (summary = NoSummary /\ summary' # NoSummary) =>
          /\ summary'.errors = errors
          /\ summary'.skipped = skipped_talks

\* C18: a missing template is one error, no landing page, the batch untouched
C18_MissingTemplate == [][C18_Step]_vars

C18_Witness ==
    /\ pcMain = "exit0"
    /\ run = 2
    /\ processed_talks # <<>>
    /\ summary # NoSummary
    /\ Count(summary.errors, TemplateError) = 1
    /\ prev.landing # NoPage
    /\ landing = prev.landing
    /\ assets

-----------------------------------------------------------------------------
(* C19: over runs that start from a fresh output root, a unit that a run     *)
(* records as Skipped has a complete published output: the run found in its  *)
(* output subdirectory the index document of a conversion that succeeded     *)
(* and the copy of its source asset; a unit whose earlier processing failed  *)
(* is not skipped.                                                           *)

Complete(o) == o.kind = "dir" /\ o.index /\ o.pdf

\* C19: what is skipped was published in full by an earlier run
C19_SkippedIsComplete ==
    \A u \in SkippedHandles : Complete(prev.out[u]) /\ Complete(out[u])

-----------------------------------------------------------------------------
(* Runs in which every external conversion terminates and every thread is    *)
(* scheduled: each step of process_all and of the workers that stays         *)
(* possible is taken in the end.                                             *)

FairRun ==
    /\ WF_vars(Discover)
    /\ \A u \in 1..NumUnits : WF_vars(Start(u))
    /\ \A u \in 1..NumUnits : WF_vars(WorkerStep(u))
    /\ \A u \in 1..NumUnits :
          WF_vars(\E outcome \in ConversionOutcomes : ConversionReturns(u, outcome))
    /\ \A u \in 1..NumUnits : WF_vars(CollectRaised(u) \/ RecordUnexpected(u))
    /\ WF_vars(Join)
    /\ WF_vars(\E template \in BOOLEAN, now \in 0..MaxDay : GenerateLandingPage(template, now))
    /\ WF_vars(CopyAssets)
    /\ WF_vars(SkipRendering)
    /\ WF_vars(PrintSummary)

SpecFair == Init /\ [][Next]_vars /\ FairRun

-----------------------------------------------------------------------------
(* C20: when every conversion terminates, the lock is taken only by a thread *)
(* that does not hold it and only for an append, every dispatched unit       *)
(* reports an outcome in the end, and process_all reaches the summary.       *)

LockDiscipline ==
    /\ lock \in Units => pc[lock] \in {"reporting", "skipping", "attaching"}
    /\ lock = MainThread => \E u \in Units : pc[u] = "collecting"
    /\ \A u \in Units : pc[u] \in {"report", "skip", "attach"} => lock # u

InProcessAll == pcMain \in {"process_all", "pool", "joined", "assets", "summary"}

SummaryPrinted == pcMain = "exit0" /\ summary # NoSummary

\* the part of C20 up to the join: the lock is never held forever and every
\* dispatched unit reports
C20_UnitsReport ==
    /\ []LockDiscipline
    /\ (lock # Free) ~> (lock = Free)
    /\ \A u \in 1..NumUnits : (u \in Units /\ pc[u] = "queued") ~> (pc[u] \in {"done", "failed"})
    /\ (pcMain = "pool") ~> (pcMain = "joined")
    /\ InProcessAll ~> (pcMain \in {"exit0", "crashed"})

\* C20: the units report and process_all reaches the summary (stated for the
\* runs over an input root that is a directory with a talk directory in it)
C20_RunReachesSummary ==
    /\ C20_UnitsReport
    /\ (InProcessAll /\ root = "dir" /\ talk_dirs # {}) ~> SummaryPrinted

=============================================================================
